---- MODULE Spec2Model ----
(***************************************************************************)
(* Gray Book salary extraction (gchallen/illinois-salary-parity).          *)
(*                                                                         *)
(* The model follows the three source files:                               *)
(*   parse_graybook_html.py  table mode: GrayBookHTMLParser and the        *)
(*                           Position / FacultyMember data model           *)
(*   parse_graybook.py       flattened-text mode: parse_faculty_simple     *)
(*                           and its own data model                        *)
(*   analyze_parity.py       the aggregator                                *)
(*                                                                         *)
(* Strings are TLA+ strings; `in`, strip(), upper() and replace() are      *)
(* computed character by character.  A Python float is kept as an integer  *)
(* number of hundredths (1234.56 is 123456, an FTE of 0.5 is 50).          *)
(***************************************************************************)
EXTENDS Integers, Sequences, FiniteSets, TLC

(***************************************************************************)
(* Bounds of the model.                                                    *)
(***************************************************************************)
\* longest row (in cells) the event-level parser is driven to
MaxCells == 8
\* text chunks that land in a cell in one run of the event-level parser
MaxData == 1
\* positions the event-level parser assembles in one run
MaxAssembled == 2
\* deepest stack of open elements in one run of the event-level parser
MaxOpen == 4
\* rows fed to the table-mode assembler in one run
MaxRows == 3
\* regular-expression matches fed to parse_faculty_simple in one run
MaxMatches == 3
\* positions of a member handed to the classifier
MaxPositions == 2

(***************************************************************************)
(* Python str operations.                                                  *)
(***************************************************************************)
CharAt(s, i) == SubSeq(s, i, i)

\* kw in s
Contains(s, kw) ==
    \E i \in 0..(Len(s) - Len(kw)) : SubSeq(s, i + 1, i + Len(kw)) = kw

Whitespace == {" ", "\n", "\t"}

RECURSIVE LStrip(_)
LStrip(s) ==
    IF s = "" THEN ""
    ELSE IF CharAt(s, 1) \in Whitespace THEN LStrip(SubSeq(s, 2, Len(s)))
    ELSE s

RECURSIVE RStrip(_)
RStrip(s) ==
    IF s = "" THEN ""
    ELSE IF CharAt(s, Len(s)) \in Whitespace THEN RStrip(SubSeq(s, 1, Len(s) - 1))
    ELSE s

\* s.strip()
Strip(s) == RStrip(LStrip(s))

UpperChar(c) ==
    CASE c = "a" -> "A" [] c = "b" -> "B" [] c = "c" -> "C" [] c = "d" -> "D"
      [] c = "e" -> "E" [] c = "f" -> "F" [] c = "g" -> "G" [] c = "h" -> "H"
      [] c = "i" -> "I" [] c = "j" -> "J" [] c = "k" -> "K" [] c = "l" -> "L"
      [] c = "m" -> "M" [] c = "n" -> "N" [] c = "o" -> "O" [] c = "p" -> "P"
      [] c = "q" -> "Q" [] c = "r" -> "R" [] c = "s" -> "S" [] c = "t" -> "T"
      [] c = "u" -> "U" [] c = "v" -> "V" [] c = "w" -> "W" [] c = "x" -> "X"
      [] c = "y" -> "Y" [] c = "z" -> "Z" [] OTHER -> c

\* s.upper()
RECURSIVE Upper(_)
Upper(s) ==
    IF s = "" THEN "" ELSE UpperChar(CharAt(s, 1)) \o Upper(SubSeq(s, 2, Len(s)))

\* s.replace(c, '') for a one-character c
RECURSIVE RemoveChar(_, _)
RemoveChar(s, c) ==
    IF s = "" THEN ""
    ELSE (IF CharAt(s, 1) = c THEN "" ELSE CharAt(s, 1))
             \o RemoveChar(SubSeq(s, 2, Len(s)), c)

(***************************************************************************)
(* float(str): optional surrounding whitespace, an optional sign, digits   *)
(* with an optional decimal point.  The result is [ok, val]: ok is FALSE   *)
(* where Python raises ValueError; val is the value in hundredths (digits  *)
(* after the second decimal are not kept).                                 *)
(***************************************************************************)
Digits == {"0", "1", "2", "3", "4", "5", "6", "7", "8", "9"}

DigitVal(c) ==
    CASE c = "0" -> 0 [] c = "1" -> 1 [] c = "2" -> 2 [] c = "3" -> 3
      [] c = "4" -> 4 [] c = "5" -> 5 [] c = "6" -> 6 [] c = "7" -> 7
      [] c = "8" -> 8 [] c = "9" -> 9 [] OTHER -> 0

AllDigits(s) == \A i \in 1..Len(s) : CharAt(s, i) \in Digits

RECURSIVE NatVal(_)
NatVal(s) ==
    IF s = "" THEN 0
    ELSE NatVal(SubSeq(s, 1, Len(s) - 1)) * 10 + DigitVal(CharAt(s, Len(s)))

\* index of the first "." of s, or 0
DotAt(s) ==
    IF Contains(s, ".")
    THEN CHOOSE i \in 1..Len(s) :
             CharAt(s, i) = "." /\ \A j \in 1..(i - 1) : CharAt(s, j) # "."
    ELSE 0

Hundredths(fp) ==
    IF Len(fp) = 0 THEN 0
    ELSE IF Len(fp) = 1 THEN DigitVal(fp) * 10
    ELSE NatVal(SubSeq(fp, 1, 2))

PyFloat(s) ==
    LET t      == Strip(s)
        signed == t # "" /\ CharAt(t, 1) \in {"+", "-"}
        neg    == t # "" /\ CharAt(t, 1) = "-"
        body   == IF signed THEN SubSeq(t, 2, Len(t)) ELSE t
        d      == DotAt(body)
        ip     == IF d = 0 THEN body ELSE SubSeq(body, 1, d - 1)
        fp     == IF d = 0 THEN "" ELSE SubSeq(body, d + 1, Len(body))
        ok     == AllDigits(ip) /\ AllDigits(fp) /\ (ip # "" \/ fp # "")
        mag    == NatVal(ip) * 100 + Hundredths(fp)
    IN  [ok |-> ok, val |-> IF ~ok THEN 0 ELSE IF neg THEN 0 - mag ELSE mag]

(***************************************************************************)
(* parse_graybook_html.py: the data model.                                 *)
(***************************************************************************)
Position(title, tenure_code, empl_class, present_fte, proposed_fte, present_salary, proposed_salary) ==
    [title |-> title, tenure_code |-> tenure_code, empl_class |-> empl_class,
     present_fte |-> present_fte, proposed_fte |-> proposed_fte,
     present_salary |-> present_salary, proposed_salary |-> proposed_salary]

FacultyMember(name, department, positions) ==
    [name |-> name, department |-> department, positions |-> positions]

\* Python's None, as the value of current_dept_id
None == "<None>"

\* bool(x) of an optional string
Truthy(x) == x # None /\ x # ""

\* the 'raised' value of a run in which no exception has propagated
NoError == "none"

\* parse_salary: '$' and ',' removed, stripped, float(); ValueError gives 0.0
parse_salary(salary_str) ==
    LET cleaned == Strip(RemoveChar(RemoveChar(salary_str, "$"), ","))
        f       == PyFloat(cleaned)
    IN  [raised |-> NoError, val |-> IF f.ok THEN f.val ELSE 0]

\* (parse_fte without its except ValueError clause)
parse_fte_NoExcept(fte_str) ==
    LET f == PyFloat(Strip(fte_str))
    IN  [raised |-> IF f.ok THEN NoError ELSE "ValueError", val |-> f.val]

\* parse_fte: stripped, float(); ValueError gives 0.0
parse_fte(fte_str) ==
    LET f == PyFloat(Strip(fte_str))
    IN  [raised |-> NoError, val |-> IF f.ok THEN f.val ELSE 0]

(***************************************************************************)
(* GrayBookHTMLParser._process_row.  p is the parser, as a record of its   *)
(* fields; 'raised' names the exception that left the method, if any.      *)
(***************************************************************************)
MinCells == 8

Marker == "Employee Total"

\* (an off-by-one in the length test: len(row) <= 8)
ShortRow_OffByOne(row) == Len(row) <= MinCells

\* len(row) < 8
ShortRow(row) == Len(row) < MinCells

\* (the marker compared with == instead of searched with in)
IsSubtotal_Exact(title) == title = Marker

\* 'Employee Total' in title
IsSubtotal(title) == Contains(title, Marker)

\* (the test without its 'not name' alternative)
IsContinuation_SameNameOnly(faculty, name) ==
    faculty # <<>> /\ name = faculty[Len(faculty)].name

\* dept["faculty"] and (not name or name == dept["faculty"][-1].name)
IsContinuation(faculty, name) ==
    faculty # <<>> /\ (name = "" \/ name = faculty[Len(faculty)].name)

\* self.departments with the entry of dept_id created when missing
WithDept(departments, dept_id) ==
    IF dept_id \in DOMAIN departments THEN departments
    ELSE (dept_id :> [name |-> dept_id, faculty |-> <<>>]) @@ departments

\* (a continuation row assigning positions = [pos] instead of appending)
Assemble_Overwrite(departments, dept_id, name, pos) ==
    LET deps    == WithDept(departments, dept_id)
        faculty == deps[dept_id].faculty
        n       == Len(faculty)
    IN  IF IsContinuation(faculty, name)
        THEN [deps EXCEPT ![dept_id].faculty[n].positions = <<pos>>]
        ELSE [deps EXCEPT ![dept_id].faculty =
                  Append(@, FacultyMember(name, dept_id, <<pos>>))]

\* (a new member put in with insert(0, faculty) instead of append)
Assemble_InsertFirst(departments, dept_id, name, pos) ==
    LET deps    == WithDept(departments, dept_id)
        faculty == deps[dept_id].faculty
        n       == Len(faculty)
    IN  IF IsContinuation(faculty, name)
        THEN [deps EXCEPT ![dept_id].faculty[n].positions = Append(@, pos)]
        ELSE [deps EXCEPT ![dept_id].faculty =
                  <<FacultyMember(name, dept_id, <<pos>>)>> \o @]

\* the branch of lines 237-263: one more position for the last member of
\* the department, or a new member at the end of the department
Assemble(departments, dept_id, name, pos) ==
    LET deps    == WithDept(departments, dept_id)
        faculty == deps[dept_id].faculty
        n       == Len(faculty)
    IN  IF IsContinuation(faculty, name)
        THEN [deps EXCEPT ![dept_id].faculty[n].positions = Append(@, pos)]
        ELSE [deps EXCEPT ![dept_id].faculty =
                  Append(@, FacultyMember(name, dept_id, <<pos>>))]

process_row(p, row) ==
    IF ShortRow(row) THEN p
    ELSE IF Len(row) < 2 THEN [p EXCEPT !.raised = "IndexError"]
    ELSE IF IsSubtotal(row[2]) THEN p
    ELSE IF Len(row) < 8 THEN [p EXCEPT !.raised = "IndexError"]
    ELSE
      LET name  == row[1]
          title == row[2]
          pfte  == parse_fte(row[5])
          qfte  == parse_fte(row[6])
          psal  == parse_salary(row[7])
          qsal  == parse_salary(row[8])
          bad   == {r.raised : r \in {pfte, qfte, psal, qsal}} \ {NoError}
          pos   == Position(title, row[3], row[4], pfte.val, qfte.val,
                            psal.val, qsal.val)
      IN  IF bad # {} THEN [p EXCEPT !.raised = CHOOSE e \in bad : TRUE]
          ELSE [p EXCEPT !.departments =
                    Assemble(p.departments, p.current_dept_id, name, pos)]

(***************************************************************************)
(* GrayBookHTMLParser: the three handlers html.parser calls.  attrs is the *)
(* list of (name, value) pairs of a start tag.  'call' records the call of *)
(* _process_row the handler made, if it made one.                          *)
(***************************************************************************)
NoCall == [made |-> FALSE, dept |-> None, row |-> <<>>]

HasAttr(attrs, k) == \E i \in 1..Len(attrs) : attrs[i][1] = k

\* dict(attrs)[k]: the last pair of that name wins
AttrValue(attrs, k) ==
    LET i == CHOOSE j \in 1..Len(attrs) :
                 attrs[j][1] = k /\ \A m \in (j + 1)..Len(attrs) : attrs[m][1] # k
    IN  attrs[i][2]

handle_starttag(p0, tag, attrs) ==
    LET p == [p0 EXCEPT !.call = NoCall] IN
    IF tag = "h3" /\ HasAttr(attrs, "id")
        THEN [p EXCEPT !.current_dept_id = AttrValue(attrs, "id")]
    ELSE IF tag = "table" THEN [p EXCEPT !.in_table = TRUE]
    ELSE IF tag = "thead" THEN [p EXCEPT !.in_thead = TRUE]
    ELSE IF tag = "tr" /\ p.in_table /\ ~p.in_thead
        THEN [p EXCEPT !.in_row = TRUE, !.current_row = <<>>]
    ELSE IF tag \in {"td", "th"} /\ p.in_row
        THEN [p EXCEPT !.in_cell = TRUE, !.current_cell_text = ""]
    ELSE p

handle_endtag(p0, tag) ==
    LET p == [p0 EXCEPT !.call = NoCall] IN
    IF tag = "thead" THEN [p EXCEPT !.in_thead = FALSE]
    ELSE IF tag = "table" THEN [p EXCEPT !.in_table = FALSE]
    ELSE IF tag \in {"td", "th"} /\ p.in_cell
        THEN [p EXCEPT !.in_cell = FALSE,
                       !.current_row = Append(@, Strip(p.current_cell_text))]
    ELSE IF tag = "tr" /\ p.in_row
        THEN LET q == [p EXCEPT !.in_row = FALSE] IN
             IF q.current_row # <<>> /\ Truthy(q.current_dept_id)
             THEN process_row(
                      [q EXCEPT !.call = [made |-> TRUE,
                                          dept |-> q.current_dept_id,
                                          row  |-> q.current_row]],
                      q.current_row)
             ELSE q
    ELSE p

handle_data(p0, data) ==
    LET p == [p0 EXCEPT !.call = NoCall] IN
    IF p.in_cell THEN [p EXCEPT !.current_cell_text = @ \o data] ELSE p

\* GrayBookHTMLParser.__init__
NewParser ==
    [departments |-> << >>, current_dept_id |-> None,
     in_table |-> FALSE, in_thead |-> FALSE, in_row |-> FALSE, in_cell |-> FALSE,
     current_row |-> <<>>, current_cell_text |-> "",
     raised |-> NoError, call |-> NoCall]

(***************************************************************************)
(* State.                                                                  *)
(*   parser      the GrayBookHTMLParser object (table mode)                *)
(*   doc, expect the document as its events describe it: the stack of open *)
(*               elements, and the row the latest event completes          *)
(*   nData       text chunks that landed in a cell so far                  *)
(*   fed         the calls of _process_row so far (row-level runs)         *)
(*   simple, matched   parse_faculty_simple's locals, and the matches its  *)
(*               loop has consumed (flattened-text mode)                   *)
(*   member, derived   a FacultyMember and its derived properties          *)
(*   extract     the run of an extraction entry point (main): its input,  *)
(*               how it ended and the artifact it wrote                   *)
(*   analysis    analyze_parity.main: its locals and what it printed      *)
(***************************************************************************)
VARIABLES parser, doc, expect, nData, fed, simple, matched, member, derived,
          extract, analysis

vars == <<parser, doc, expect, nData, fed, simple, matched, member, derived,
          extract, analysis>>

(***************************************************************************)
(* The document structure the events describe, kept beside the parser:     *)
(* a stack of open elements.  A tr frame is 'valid' when the row lies      *)
(* directly in a table (not in its thead); a valid row collects the        *)
(* stripped text of its cells.  'balanced' is FALSE once an event did not  *)
(* nest properly; 'nested' is TRUE once a table was opened inside another. *)
(***************************************************************************)
Kind(tag) == IF tag \in {"td", "th"} THEN "cell" ELSE tag

Structural == {"table", "thead", "tr", "cell"}

Frame(kind, valid) == [tag |-> kind, valid |-> valid, cells |-> <<>>, text |-> ""]

NewDoc == [open |-> <<>>, balanced |-> TRUE, nested |-> FALSE, heading |-> None]

Unbalanced(g) == [open |-> <<>>, balanced |-> FALSE, nested |-> FALSE,
                  heading |-> g.heading]

Parent(g) == IF g.open = <<>> THEN "root" ELSE g.open[Len(g.open)].tag

ParentOk(kind, parent) ==
    CASE kind = "table" -> parent \in {"root", "cell"}
      [] kind = "thead" -> parent = "table"
      [] kind = "tr"    -> parent \in {"table", "thead", "root"}
      [] kind = "cell"  -> parent = "tr"

DocStart(g0, tag, attrs) ==
    LET g == IF tag = "h3" /\ HasAttr(attrs, "id")
             THEN [g0 EXCEPT !.heading = AttrValue(attrs, "id")] ELSE g0
        k == Kind(tag)
    IN  IF k \notin Structural \/ ~g.balanced THEN g
        ELSE IF ~ParentOk(k, Parent(g)) THEN Unbalanced(g)
        ELSE [g EXCEPT
                !.open = Append(@, Frame(k, k = "tr" /\ Parent(g) = "table")),
                !.nested = @ \/ (k = "table" /\
                                   \E i \in 1..Len(g.open) : g.open[i].tag = "table")]

DocEnd(g, tag) ==
    LET k == Kind(tag)
        n == Len(g.open)
    IN  IF k \notin Structural \/ ~g.balanced THEN g
        ELSE IF n = 0 \/ g.open[n].tag # k THEN Unbalanced(g)
        ELSE IF k = "cell" /\ g.open[n - 1].valid
             THEN [g EXCEPT !.open =
                      [SubSeq(g.open, 1, n - 1) EXCEPT
                          ![n - 1].cells = Append(@, Strip(g.open[n].text))]]
        ELSE [g EXCEPT !.open = SubSeq(g.open, 1, n - 1)]

\* text belongs to every open cell that encloses it
DocData(g, data) ==
    IF ~g.balanced THEN g
    ELSE [g EXCEPT !.open =
            [i \in 1..Len(g.open) |->
                IF i >= 2 /\ g.open[i].tag = "cell" /\ g.open[i - 1].valid
                THEN [g.open[i] EXCEPT !.text = @ \o data]
                ELSE g.open[i]]]

\* the row an end tag completes: a valid row with at least one cell, under a
\* heading with a non-empty id
RowDone(g, tag) ==
    LET n == Len(g.open)
    IN  IF tag = "tr" /\ g.balanced /\ n > 0 /\ g.open[n].tag = "tr"
           /\ g.open[n].valid /\ g.open[n].cells # <<>> /\ Truthy(g.heading)
        THEN [made |-> TRUE, dept |-> g.heading, row |-> g.open[n].cells]
        ELSE NoCall

(***************************************************************************)
(* Table mode, event by event: html.parser calls one handler per event.    *)
(* An exception that leaves a handler ends the run.                        *)
(***************************************************************************)
Tags == {"h2", "h3", "table", "thead", "tr", "td", "th"}

DeptIds == {"c42-d6", "c42-d7"}

\* the attribute lists of the h3 start tags
HeadingAttrs == {<<>>, << <<"id", "">> >>, << <<"id", "c42-d6">> >>}

DataTexts == {" Lee, A "}

\* the rows the model is driven to hold at most MaxCells cells
RoomForCell ==
    /\ Len(parser.current_row) < MaxCells
    /\ \A i \in 1..Len(doc.open) : Len(doc.open[i].cells) < MaxCells

RECURSIVE SumLen(_)
SumLen(seqs) ==
    IF seqs = <<>> THEN 0 ELSE Len(seqs[1]) + SumLen(SubSeq(seqs, 2, Len(seqs)))

\* the positions assembled so far, over all departments
Assembled(departments) ==
    LET RECURSIVE Over(_)
        Over(ds) ==
            IF ds = {} THEN 0
            ELSE LET d == CHOOSE x \in ds : TRUE
                     f == departments[d].faculty
                 IN  SumLen([i \in 1..Len(f) |-> f[i].positions]) + Over(ds \ {d})
    IN  Over(DOMAIN departments)

RestUnchanged == UNCHANGED <<fed, simple, matched, member, derived, extract, analysis>>

StartTag(tag, attrs) ==
    /\ parser.raised = NoError
    /\ tag \in {"td", "th"} => RoomForCell
    /\ (doc.balanced /\ Kind(tag) \in Structural) => Len(doc.open) < MaxOpen
    /\ parser' = handle_starttag(parser, tag, attrs)
    /\ doc' = DocStart(doc, tag, attrs)
    /\ expect' = NoCall
    /\ UNCHANGED nData
    /\ RestUnchanged

EndTag(tag) ==
    /\ parser.raised = NoError
    /\ tag = "tr" => Assembled(parser.departments) < MaxAssembled
    /\ parser' = handle_endtag(parser, tag)
    /\ doc' = DocEnd(doc, tag)
    /\ expect' = RowDone(doc, tag)
    /\ UNCHANGED nData
    /\ RestUnchanged

Data(data) ==
    /\ parser.raised = NoError
    /\ nData < MaxData
    /\ parser' = handle_data(parser, data)
    /\ doc' = DocData(doc, data)
    /\ expect' = NoCall
    /\ nData' = IF parser.in_cell \/ doc' # doc THEN nData + 1 ELSE nData
    /\ RestUnchanged

NoSimple == [current_name |-> None, current_positions |-> <<>>,
             faculty |-> <<>>, pc |-> "idle"]

NoMember == [name |-> "", positions |-> <<>>]

NoDerived == [done |-> FALSE]

\* no entry point has run: nothing read, nothing written
NoExtract ==
    [entry |-> "none", pc |-> "idle", input |-> <<>>, cs_dept_id |-> None,
     raised |-> NoError, exit |-> "none", written |-> FALSE, output |-> <<>>]

\* analyze_parity.main has not started
NoAnalysis ==
    [pc |-> "idle", data |-> <<>>, i |-> 0,
     teaching_by_rank |-> <<>>, tenure_by_rank |-> <<>>,
     excluded |-> <<>>, raised |-> NoError, report |-> <<>>]

Init ==
    /\ parser = NewParser
    /\ doc = NewDoc
    /\ expect = NoCall
    /\ nData = 0
    /\ fed = <<>>
    /\ simple = NoSimple
    /\ matched = <<>>
    /\ member = NoMember
    /\ derived = NoDerived
    /\ extract = NoExtract
    /\ analysis = NoAnalysis

Next ==
    \/ \E tag \in Tags \ {"h3"} : StartTag(tag, <<>>)
    \/ \E attrs \in HeadingAttrs : StartTag("h3", attrs)
    \/ \E tag \in Tags : EndTag(tag)
    \/ \E data \in DataTexts : Data(data)

Spec == Init /\ [][Next]_vars

(***************************************************************************)
(* Table mode, row by row: the parser inside a table, driven with one      *)
(* well-formed row at a time, <h3 id=..> <tr> (<td>text</td>)* </tr>, each  *)
(* event handled by the handlers above.                                    *)
(***************************************************************************)
StartEv(tag, attrs) == [ev |-> "start", tag |-> tag, attrs |-> attrs, data |-> ""]
EndEv(tag)          == [ev |-> "end", tag |-> tag, attrs |-> <<>>, data |-> ""]
DataEv(data)        == [ev |-> "data", tag |-> "", attrs |-> <<>>, data |-> data]

\* html.parser reports no text for an empty cell
CellEvents(text) ==
    IF text = "" THEN <<StartEv("td", <<>>), EndEv("td")>>
    ELSE <<StartEv("td", <<>>), DataEv(text), EndEv("td")>>

RECURSIVE CellsEvents(_)
CellsEvents(cells) ==
    IF cells = <<>> THEN <<>>
    ELSE CellEvents(cells[1]) \o CellsEvents(SubSeq(cells, 2, Len(cells)))

RowEvents(dept_id, cells) ==
    <<StartEv("h3", << <<"id", dept_id>> >>), StartEv("tr", <<>>)>>
        \o CellsEvents(cells) \o <<EndEv("tr")>>

\* one event, unless an exception has already ended the run
Handle(p, e) ==
    IF p.raised # NoError THEN p
    ELSE CASE e.ev = "start" -> handle_starttag(p, e.tag, e.attrs)
           [] e.ev = "end"   -> handle_endtag(p, e.tag)
           [] e.ev = "data"  -> handle_data(p, e.data)

\* HTMLParser.feed over a list of events
RECURSIVE Feed(_, _)
Feed(p, events) ==
    IF events = <<>> THEN p
    ELSE Feed(Handle(p, events[1]), SubSeq(events, 2, Len(events)))

\* the rows fed: first rows of a person, a blank-name continuation row (its
\* proposed salary with a minus sign), a row with non-numeric cells, a
\* subtotal row, a row of 7 cells and one of 9
Filled(name, title) ==
    <<name, title, "A", "AA", "1.00", "1.00", "$100,000.00", "$103,000.00">>

RowSet ==
    { Filled("Smith, Jane", "PROF"),
      <<"", "ADMIN STIPEND", "", "BA", "0.00", "0.00", "$5,000.00", "-$500.00">>,
      <<"Lee, A", "LECTURER", "", "AL", "n/a", " .5 ", "TBD", "$90,500.5">>,
      <<" ", "Employee Total for All Jobs...", "", "", "1.00", "1.00",
        "$105,000.00", "$108,000.00">>,
      Filled("Lee, A", "TCH PROF"),
      SubSeq(Filled("Lee, A", "PROF"), 1, 7),
      Filled("Smith, Jane", "DEPT HEAD") \o <<"$1.00">> }

\* the second section's rows: a person of the first section again, a
\* blank-name row, another person
RowSetNext ==
    { Filled("Smith, Jane", "PROF"),
      <<"", "ADMIN STIPEND", "", "BA", "0.00", "0.00", "$5,000.00", "$5,000.00">>,
      Filled("Lee, A", "TCH PROF") }

\* rows with the id of the h3 before them
RowInputs ==
    ({"c42-d6"} \X RowSet) \cup ({"c42-d7"} \X RowSetNext)

\* the rows the claims call processed: 8 cells or more, not a subtotal row
Processed(row) == Len(row) >= 8 /\ ~Contains(row[2], "Employee Total")

FeedRow(dept_id, cells) ==
    /\ simple.pc = "idle"
    /\ parser.raised = NoError
    /\ Len(fed) < MaxRows
    /\ parser' = Feed(parser, RowEvents(dept_id, cells))
    /\ fed' = IF parser'.call.made /\ Processed(parser'.call.row)
              THEN Append(fed, parser'.call) ELSE fed
    /\ UNCHANGED <<doc, expect, nData, simple, matched, member, derived,
                   extract, analysis>>

(***************************************************************************)
(* parse_graybook.py: the data model and parse_faculty_simple, one step    *)
(* per iteration of its loop over the matches of entry_pattern.            *)
(***************************************************************************)
RECURSIVE SumOf(_, _)
SumOf(positions, f) ==
    IF positions = <<>> THEN 0
    ELSE positions[1][f] + SumOf(SubSeq(positions, 2, Len(positions)), f)

\* FacultyMember(name=..., positions=...) and its __post_init__
DocxFacultyMember(name, positions) ==
    [name |-> name, positions |-> positions,
     total_present_fte |-> SumOf(positions, "present_fte"),
     total_proposed_fte |-> SumOf(positions, "proposed_fte"),
     total_present_salary |-> SumOf(positions, "present_salary"),
     total_proposed_salary |-> SumOf(positions, "proposed_salary")]

\* parse_salary of parse_graybook.py: no strip() before float()
docx_parse_salary(salary_str) ==
    LET f == PyFloat(RemoveChar(RemoveChar(salary_str, "$"), ","))
    IN  [raised |-> NoError, val |-> IF f.ok THEN f.val ELSE 0]

\* the header names the loop skips
IsHeaderName(name) ==
    \/ Contains(name, "Siebel School")
    \/ Contains(name, "Engineering")
    \/ Contains(name, "Board of Trustees")

\* the groups of one match of entry_pattern: name, title, tenure code, the
\* two FTEs and the two salaries (the '$' lies outside the groups)
Match(name, title, salary) ==
    [name |-> name, title |-> title, tenure |-> "A",
     present_fte |-> "1", proposed_fte |-> "1.00",
     present_salary |-> salary, proposed_salary |-> "103,000.00"]

MatchSet ==
    {Match(n, t, "100,000.00") : n \in {"Smith, Jane", "Lee, A"},
                                  t \in {"PROF", "ADMIN STIPEND"}}
      \cup {Match("Engineering, Grainger", "PROF", "100,000.00"),
            Match("Lee, A", "TCH ASST PROF", "0.00")}

\* the save of lines 321-325, also run (line 339) after the loop
Flush(s) ==
    IF s.current_positions # <<>>
    THEN Append(s.faculty, DocxFacultyMember(s.current_name, s.current_positions))
    ELSE s.faculty

simple_step(s, m) ==
    LET name  == Strip(m.name)
        title == Strip(m.title)
        pfte  == PyFloat(m.present_fte)
        qfte  == PyFloat(m.proposed_fte)
        psal  == docx_parse_salary(m.present_salary)
        qsal  == docx_parse_salary(m.proposed_salary)
        pos   == Position(title, m.tenure, "", pfte.val, qfte.val, psal.val, qsal.val)
    IN  IF ~pfte.ok \/ ~qfte.ok THEN [s EXCEPT !.pc = "ValueError"]
        ELSE IF IsHeaderName(name) THEN s
        ELSE LET t == IF s.current_name # None /\ s.current_name # ""
                         /\ name # s.current_name
                      THEN [s EXCEPT !.faculty = Flush(s), !.current_positions = <<>>]
                      ELSE s
             IN  [t EXCEPT !.current_name = name,
                           !.current_positions = Append(@, pos)]

simple_return(s) ==
    IF s.current_name # None /\ s.current_name # "" /\ s.current_positions # <<>>
    THEN [s EXCEPT !.faculty = Flush(s), !.pc = "done"]
    ELSE [s EXCEPT !.pc = "done"]

SimpleMatch(m) ==
    /\ simple.pc = "loop"
    /\ Len(matched) < MaxMatches
    /\ simple' = simple_step(simple, m)
    /\ matched' = IF IsHeaderName(Strip(m.name)) THEN matched ELSE Append(matched, m)
    /\ UNCHANGED <<parser, doc, expect, nData, fed, member, derived,
                   extract, analysis>>

SimpleReturn ==
    /\ simple.pc = "loop"
    /\ simple' = simple_return(simple)
    /\ UNCHANGED <<parser, doc, expect, nData, fed, matched, member, derived,
                   extract, analysis>>

InitAsm ==
    /\ \/ /\ parser = handle_starttag(NewParser, "table", <<>>)
          /\ simple = NoSimple
       \/ /\ parser = NewParser
          /\ simple = [NoSimple EXCEPT !.pc = "loop"]
    /\ doc = NewDoc
    /\ expect = NoCall
    /\ nData = 0
    /\ fed = <<>>
    /\ matched = <<>>
    /\ member = NoMember
    /\ derived = NoDerived
    /\ extract = NoExtract
    /\ analysis = NoAnalysis

NextAsm ==
    \/ \E r \in RowInputs : FeedRow(r[1], r[2])
    \/ \E m \in MatchSet : SimpleMatch(m)
    \/ SimpleReturn

SpecAsm == InitAsm /\ [][NextAsm]_vars

(***************************************************************************)
(* The derived properties of a FacultyMember, in both data models.         *)
(* primary_position is given as the index of the position in 'positions'.  *)
(***************************************************************************)
\* max(seq, key=present_salary) over the indices in idx (ascending, not
\* empty): Python's max keeps the first of equal keys
MaxFirst(positions, idx) ==
    CHOOSE i \in idx :
        /\ \A j \in idx : positions[j].present_salary <= positions[i].present_salary
        /\ \A j \in idx : j < i =>
               positions[j].present_salary < positions[i].present_salary

\* (primary_position without the filter on present_salary > 0)
primary_position_NoFilter(positions) == MaxFirst(positions, 1..Len(positions))

\* parse_graybook_html.py, FacultyMember.primary_position
primary_position(positions) ==
    LET nonzero == {i \in 1..Len(positions) : positions[i].present_salary > 0}
    IN  IF nonzero # {} THEN MaxFirst(positions, nonzero) ELSE 1

\* parse_graybook.py, FacultyMember.primary_position
docx_primary_position(positions) == MaxFirst(positions, 1..Len(positions))

\* (faculty_type with the PROF rule moved before the teaching rule)
faculty_type_ProfFirst(primary_title) ==
    LET title == Upper(primary_title) IN
    IF Contains(title, "RES ") /\ (Contains(title, "PROF")
                \/ Contains(title, "ASSOC") \/ Contains(title, "ASST"))
        THEN "research"
    ELSE IF Contains(title, "CLIN") \/ Contains(title, "CLINICAL") THEN "clinical"
    ELSE IF Contains(title, "PROF") THEN "tenure_track"
    ELSE IF \E kw \in {"TCH ", "TEACHING", "SR. LECTURER", "SR LECTURER", "LECTURER"} :
           Contains(title, kw)
        THEN "teaching"
    ELSE IF Contains(title, "INSTR") THEN "teaching"
    ELSE "other"

\* parse_graybook_html.py, FacultyMember.faculty_type, of the primary title
faculty_type(primary_title) ==
    LET title == Upper(primary_title) IN
    IF \E kw \in {"TCH ", "TEACHING", "SR. LECTURER", "SR LECTURER", "LECTURER"} :
           Contains(title, kw)
        THEN "teaching"
    ELSE IF Contains(title, "RES ") /\ (Contains(title, "PROF")
                \/ Contains(title, "ASSOC") \/ Contains(title, "ASST"))
        THEN "research"
    ELSE IF Contains(title, "CLIN") \/ Contains(title, "CLINICAL") THEN "clinical"
    ELSE IF Contains(title, "PROF") THEN "tenure_track"
    ELSE IF Contains(title, "INSTR") THEN "teaching"
    ELSE "other"

\* (the teaching keyword 'INSTR ' written without its trailing space)
docx_faculty_type_Instr(primary_title) ==
    LET title == Upper(primary_title) IN
    IF \E kw \in {"TCH ", "TEACHING", "LECTURER", "INSTR"} : Contains(title, kw)
        THEN "teaching"
    ELSE IF Contains(title, "RES ") /\ Contains(title, "PROF") THEN "research_only"
    ELSE IF Contains(title, "CLIN") \/ Contains(title, "CLINICAL") THEN "clinical"
    ELSE IF Contains(title, "PROF") THEN "tenure_track"
    ELSE "other"

\* parse_graybook.py, FacultyMember.faculty_type, of the primary title
docx_faculty_type(primary_title) ==
    LET title == Upper(primary_title) IN
    IF \E kw \in {"TCH ", "TEACHING", "LECTURER", "INSTR "} : Contains(title, kw)
        THEN "teaching"
    ELSE IF Contains(title, "RES ") /\ Contains(title, "PROF") THEN "research_only"
    ELSE IF Contains(title, "CLIN") \/ Contains(title, "CLINICAL") THEN "clinical"
    ELSE IF Contains(title, "PROF") THEN "tenure_track"
    ELSE "other"

\* (rank with the 'ASSISTANT PROF' alternative of the first test left out)
rank_NoAssistantProf(primary_title) ==
    LET title == Upper(primary_title) IN
    IF Contains(title, "ASST PROF") THEN "assistant"
    ELSE IF Contains(title, "ASSOC PROF") \/ Contains(title, "ASSOCIATE PROF")
        THEN "associate"
    ELSE IF Contains(title, "PROF") THEN "full"
    ELSE IF Contains(title, "SR") /\ Contains(title, "LECTURER") THEN "senior_lecturer"
    ELSE IF Contains(title, "LECTURER") THEN "lecturer"
    ELSE IF Contains(title, "INSTR") THEN "instructor"
    ELSE "other"

\* parse_graybook_html.py, FacultyMember.rank, of the primary title
rank(primary_title) ==
    LET title == Upper(primary_title) IN
    IF Contains(title, "ASST PROF") \/ Contains(title, "ASSISTANT PROF")
        THEN "assistant"
    ELSE IF Contains(title, "ASSOC PROF") \/ Contains(title, "ASSOCIATE PROF")
        THEN "associate"
    ELSE IF Contains(title, "PROF") THEN "full"
    ELSE IF Contains(title, "SR") /\ Contains(title, "LECTURER") THEN "senior_lecturer"
    ELSE IF Contains(title, "LECTURER") THEN "lecturer"
    ELSE IF Contains(title, "INSTR") THEN "instructor"
    ELSE "other"

\* parse_graybook.py, FacultyMember.rank, of the primary title
docx_rank(primary_title) ==
    LET title == Upper(primary_title) IN
    IF Contains(title, "ASST PROF") \/ Contains(title, "ASSISTANT") THEN "assistant"
    ELSE IF Contains(title, "ASSOC PROF") \/ Contains(title, "ASSOCIATE")
        THEN "associate"
    ELSE IF Contains(title, "PROF") THEN "full"
    ELSE IF Contains(title, "LECTURER")
        THEN (IF Contains(title, "SR") THEN "senior_lecturer" ELSE "lecturer")
    ELSE IF Contains(title, "INSTR") THEN "instructor"
    ELSE "other"

\* the derived properties read off a member, by each data model
Derived(m) ==
    LET h == primary_position(m.positions)
        d == docx_primary_position(m.positions)
    IN  [done |-> TRUE,
         html |-> [primary |-> h,
                   faculty_type |-> faculty_type(m.positions[h].title),
                   rank |-> rank(m.positions[h].title)],
         docx |-> [primary |-> d,
                   faculty_type |-> docx_faculty_type(m.positions[d].title),
                   rank |-> docx_rank(m.positions[d].title)]]

(***************************************************************************)
(* The derived properties as pure functions: a member is drawn, then its   *)
(* properties are read.                                                    *)
(***************************************************************************)
TitleWords == {"TCH", "PROF", "RES", "ASST", "ASSOC", "INSTR", "INSTRUCTOR",
               "ASSISTANT", "LECTURER", "CLIN", "SR", "tch", "DEAN"}

TitleSeps == {" ", ", "}

\* titles of one or two words, and some of three
Titles ==
    TitleWords
      \cup {a \o sep \o b : a \in TitleWords, b \in TitleWords, sep \in TitleSeps}
      \cup {"TCH ASST PROF", "RES ASST PROF", "TEACHING ASSOC PROF", "SR. LECTURER",
            "RES ASSOCIATE INSTR", "ASSOCIATE INSTRUCTOR", "ADMIN STIPEND"}

\* salaries in hundredths; table mode can hold a negative one ("-5.00")
Salaries == {-500, 0, 10000000, 12000000}

\* the titles of the positions of the members with several positions
FewTitles == {"PROF", "TCH PROF", "INSTRUCTOR", "ADMIN STIPEND"}

Pos(title, salary) == Position(title, "A", "AA", 100, 100, salary, salary)

SeqsUpTo(S, n) == UNION {[1..k -> S] : k \in 1..n}

Members ==
    {[name |-> "Smith, Jane", positions |-> <<Pos(t, 10000000)>>] : t \in Titles}
      \cup {[name |-> "Lee, A", positions |-> ps] :
               ps \in SeqsUpTo({Pos(t, sal) : t \in FewTitles, sal \in Salaries},
                               MaxPositions)}

\* a member parse_faculty_simple can build: its patterns match upper-case
\* titles and unsigned salaries
DocxShaped(m) ==
    \A i \in 1..Len(m.positions) :
        /\ m.positions[i].present_salary >= 0
        /\ m.positions[i].title = Upper(m.positions[i].title)

Derive ==
    /\ ~derived.done
    /\ member # NoMember
    /\ derived' = Derived(member)
    /\ UNCHANGED <<parser, doc, expect, nData, fed, simple, matched, member,
                   extract, analysis>>

InitDerive ==
    /\ parser = NewParser
    /\ doc = NewDoc
    /\ expect = NoCall
    /\ nData = 0
    /\ fed = <<>>
    /\ simple = NoSimple
    /\ matched = <<>>
    /\ member \in Members
    /\ derived = NoDerived
    /\ extract = NoExtract
    /\ analysis = NoAnalysis

NextDerive == Derive

SpecDerive == InitDerive /\ [][NextDerive]_vars

(***************************************************************************)
(* The extraction entry points: main of parse_graybook_html.py and of      *)
(* parse_graybook.py.  Each writes cs_faculty_salaries.json, here the      *)
(* sequence 'output' of records; a record is a function from its keys.     *)
(***************************************************************************)
FacultyClasses == {"AA", "AB", "AL", "AM"}

\* parse_graybook_html.py, FacultyMember: the totals and the two flags
total_present_salary(m) == SumOf(m.positions, "present_salary")

total_proposed_salary(m) == SumOf(m.positions, "proposed_salary")

total_present_fte(m) == SumOf(m.positions, "present_fte")

is_joint_appointment(m) == total_present_fte(m) < 90 \/ total_present_salary(m) = 0

is_full_time_here(m) == total_present_fte(m) >= 90

\* the filter of line 327: the primary position is of a faculty class
faculty_only(faculty) ==
    LET Keep(f) == /\ f.positions # <<>>
                   /\ f.positions[primary_position(f.positions)].empl_class
                          \in FacultyClasses
    IN  SelectSeq(faculty, Keep)

\* one record of the "faculty" list main of parse_graybook_html.py writes
HtmlRecord(f) ==
    LET primary == f.positions[primary_position(f.positions)] IN
    [name |-> f.name,
     faculty_type |-> faculty_type(primary.title),
     rank |-> rank(primary.title),
     is_full_time_here |-> is_full_time_here(f),
     is_joint_appointment |-> is_joint_appointment(f),
     total_present_salary |-> total_present_salary(f),
     total_proposed_salary |-> total_proposed_salary(f),
     total_present_fte |-> total_present_fte(f),
     positions |-> f.positions]

\* one record of the "faculty" list main of parse_graybook.py writes
DocxRecord(f) ==
    LET primary == f.positions[docx_primary_position(f.positions)] IN
    [name |-> f.name,
     faculty_type |-> docx_faculty_type(primary.title),
     rank |-> docx_rank(primary.title),
     is_full_time |-> f.total_present_fte >= 90,
     total_present_salary |-> f.total_present_salary,
     total_proposed_salary |-> f.total_proposed_salary,
     total_present_fte |-> f.total_present_fte,
     positions |-> f.positions]

\* the number of digits s starts with
RECURSIVE LeadDigits(_)
LeadDigits(s) ==
    IF s = "" \/ CharAt(s, 1) \notin Digits THEN 0
    ELSE 1 + LeadDigits(SubSeq(s, 2, Len(s)))

\* the text of an h3 matches (\d+ - [^<]+)
IsDeptHeading(text) ==
    LET k == LeadDigits(text)
    IN  /\ k >= 1
        /\ Len(text) >= k + 4
        /\ SubSeq(text, k + 1, k + 3) = " - "
        /\ ~Contains(text, "<")

\* extract_department_names over the document's <h3 id="...">text</h3>
\* elements, as (id, text) pairs in document order
extract_department_names(headings) ==
    LET Named(h) == IsDeptHeading(h[2]) IN SelectSeq(headings, Named)

\* the loop of lines 301-305: the first department named as the school
FindCsDept(dept_names) ==
    LET hits == {i \in 1..Len(dept_names) :
                    \/ Contains(dept_names[i][2], "Siebel School")
                    \/ Contains(dept_names[i][2], "434 -")}
    IN  IF hits = {} THEN None
        ELSE dept_names[CHOOSE i \in hits : \A j \in hits : i <= j][1]

\* how a run of main ends: returned or raised, with or without the file
Ended(x, raised, written, output) ==
    [x EXCEPT !.pc = "done", !.raised = raised,
              !.exit = IF raised = NoError THEN "ok" ELSE "error",
              !.written = written, !.output = output]

\* main of parse_graybook_html.py up to 'Parsing HTML tables...'
HtmlNames ==
    /\ extract.entry = "html" /\ extract.pc = "names"
    /\ LET cs_dept_id == FindCsDept(extract_department_names(extract.input))
       IN  extract' = IF ~Truthy(cs_dept_id)
                      THEN Ended(extract, NoError, FALSE, <<>>)
                      ELSE [extract EXCEPT !.pc = "parse", !.cs_dept_id = cs_dept_id]
    /\ UNCHANGED <<parser, doc, expect, nData, fed, simple, matched, member,
                   derived, analysis>>

\* parse_graybook_html, a table row at a time
HtmlRow(dept_id, cells) ==
    /\ extract.entry = "html" /\ extract.pc = "parse"
    /\ FeedRow(dept_id, cells)

\* main of parse_graybook_html.py from line 315 on
HtmlWrite ==
    /\ extract.entry = "html" /\ extract.pc = "parse"
    /\ extract' =
         IF extract.cs_dept_id \notin DOMAIN parser.departments
         THEN Ended(extract, NoError, FALSE, <<>>)
         ELSE LET kept == faculty_only(parser.departments[extract.cs_dept_id].faculty)
              IN  Ended(extract, NoError, TRUE,
                        [i \in 1..Len(kept) |-> HtmlRecord(kept[i])])
    /\ UNCHANGED <<parser, doc, expect, nData, fed, simple, matched, member,
                   derived, analysis>>

\* extract_department_section's search for '434 - Siebel School Comp & Data Sci'
SectionPattern == "434 - Siebel School Comp & Data Sci"

\* main of parse_graybook.py up to 'Parsing faculty entries...'
DocxSection ==
    /\ extract.entry = "docx" /\ extract.pc = "section"
    /\ IF ~Contains(extract.input, SectionPattern)
       THEN /\ extract' = Ended(extract, "ValueError", FALSE, <<>>)
            /\ UNCHANGED simple
       ELSE /\ extract' = [extract EXCEPT !.pc = "parse"]
            /\ simple' = [NoSimple EXCEPT !.pc = "loop"]
    /\ UNCHANGED <<parser, doc, expect, nData, fed, matched, member, derived,
                   analysis>>

\* parse_faculty_simple inside main
DocxMatch(m) ==
    /\ extract.entry = "docx" /\ extract.pc = "parse"
    /\ SimpleMatch(m)

DocxReturn ==
    /\ extract.entry = "docx" /\ extract.pc = "parse"
    /\ SimpleReturn

\* main of parse_graybook.py from line 361 on
DocxWrite ==
    /\ extract.entry = "docx" /\ extract.pc = "parse"
    /\ simple.pc = "done"
    /\ extract' = Ended(extract, NoError, TRUE,
                        [i \in 1..Len(simple.faculty) |-> DocxRecord(simple.faculty[i])])
    /\ UNCHANGED <<parser, doc, expect, nData, fed, simple, matched, member,
                   derived, analysis>>

(***************************************************************************)
(* analyze_parity.py.  Amounts are in hundredths; a mean or a median is a  *)
(* fraction, rounded where a format prints it.  The StdDev lines, the      *)
(* lecturer section and the listings print nothing the model keeps.        *)
(***************************************************************************)
\* (the salary taken from the total instead of the best-paid faculty position)
get_primary_faculty_salary_Total(faculty_entry) ==
    LET positions == faculty_entry.positions
        paid == {i \in 1..Len(positions) :
                    /\ positions[i].empl_class \in FacultyClasses
                    /\ positions[i].present_salary > 0}
    IN  IF paid = {} THEN 0 ELSE faculty_entry.total_present_salary

\* get_primary_faculty_salary
get_primary_faculty_salary(faculty_entry) ==
    LET positions == faculty_entry.positions
        paid == {i \in 1..Len(positions) :
                    /\ positions[i].empl_class \in FacultyClasses
                    /\ positions[i].present_salary > 0}
    IN  IF paid = {} THEN 0
        ELSE LET top == CHOOSE i \in paid : \A j \in paid :
                            positions[j].present_salary <= positions[i].present_salary
             IN  positions[top].present_salary

\* the three tests of is_clean_appointment on one uppercased title
has_teaching(t) ==
    Contains(t, "TCH") \/ Contains(t, "TEACHING") \/ Contains(t, "LECTURER")

has_research(t) == Contains(t, "RES ")

has_tenure_track(t) ==
    /\ Contains(t, "PROF")
    /\ ~Contains(t, "TCH") /\ ~Contains(t, "RES") /\ ~Contains(t, "TEACHING")

\* the uppercased titles of the faculty-class positions of an entry
FacultyTitles(faculty_entry) ==
    {Upper(faculty_entry.positions[i].title) :
        i \in {j \in 1..Len(faculty_entry.positions) :
                  faculty_entry.positions[j].empl_class \in FacultyClasses}}

\* the number of tracks is_clean_appointment finds
Tracks(titles) ==
    (IF \E t \in titles : has_teaching(t) THEN 1 ELSE 0)
      + (IF \E t \in titles : has_research(t) THEN 1 ELSE 0)
      + (IF \E t \in titles : has_tenure_track(t) THEN 1 ELSE 0)

is_clean_appointment(faculty_entry) ==
    LET titles == FacultyTitles(faculty_entry)
    IN  titles # {} /\ Tracks(titles) <= 1

normalize_rank(r, faculty_type_) ==
    IF r = "senior_lecturer" THEN "lecturer"
    ELSE IF r = "instructor" THEN "assistant"
    ELSE r

\* defaultdict(list): d[rank].append(entry), and d.get(rank, [])
AppendTo(d, r, entry) ==
    IF r \in DOMAIN d THEN [d EXCEPT ![r] = Append(@, entry)]
    ELSE (r :> <<entry>>) @@ d

GetList(d, r) == IF r \in DOMAIN d THEN d[r] ELSE <<>>

\* (the loop body without the is_clean_appointment test)
bucket_step_NoCleanTest(a, f) ==
    LET next == [a EXCEPT !.i = @ + 1] IN
    IF "is_full_time_here" \notin DOMAIN f
        THEN [a EXCEPT !.raised = "KeyError", !.pc = "done"]
    ELSE IF ~f.is_full_time_here THEN next
    ELSE LET r == normalize_rank(f.rank, f.faculty_type)
             primary_salary == get_primary_faculty_salary(f)
             entry == [name |-> f.name, salary |-> primary_salary,
                       total_salary |-> f.total_present_salary]
         IN  IF primary_salary = 0 THEN next
             ELSE IF f.faculty_type = "teaching"
                 THEN [next EXCEPT !.teaching_by_rank = AppendTo(@, r, entry)]
             ELSE IF f.faculty_type = "tenure_track"
                 THEN [next EXCEPT !.tenure_by_rank = AppendTo(@, r, entry)]
             ELSE next

\* one iteration of the loop of lines 75-103 on entry f; a key the entry
\* lacks raises KeyError
bucket_step(a, f) ==
    LET next == [a EXCEPT !.i = @ + 1] IN
    IF "is_full_time_here" \notin DOMAIN f
        THEN [a EXCEPT !.raised = "KeyError", !.pc = "done"]
    ELSE IF ~f.is_full_time_here THEN next
    ELSE IF ~is_clean_appointment(f)
        THEN [next EXCEPT !.excluded = Append(@, f.name)]
    ELSE LET r == normalize_rank(f.rank, f.faculty_type)
             primary_salary == get_primary_faculty_salary(f)
             entry == [name |-> f.name, salary |-> primary_salary,
                       total_salary |-> f.total_present_salary]
         IN  IF primary_salary = 0 THEN next
             ELSE IF f.faculty_type = "teaching"
                 THEN [next EXCEPT !.teaching_by_rank = AppendTo(@, r, entry)]
             ELSE IF f.faculty_type = "tenure_track"
                 THEN [next EXCEPT !.tenure_by_rank = AppendTo(@, r, entry)]
             ELSE next

\* n / d rounded to the nearest integer, a tie to the even one (d > 0)
RoundDiv(n, d) ==
    LET q == n \div d
        r == n % d
    IN  IF 2 * r < d THEN q
        ELSE IF 2 * r > d THEN q + 1
        ELSE IF q % 2 = 0 THEN q ELSE q + 1

RECURSIVE Gcd(_, _)
Gcd(a, b) == IF b = 0 THEN a ELSE Gcd(b, a % b)

Abs(n) == IF n < 0 THEN 0 - n ELSE n

SalariesOf(entries) == [i \in 1..Len(entries) |-> entries[i].salary]

RECURSIVE SumSeq(_)
SumSeq(xs) == IF xs = <<>> THEN 0 ELSE xs[1] + SumSeq(Tail(xs))

\* the k-th smallest of xs
Ranked(xs, k) ==
    CHOOSE v \in {xs[i] : i \in 1..Len(xs)} :
        /\ Cardinality({i \in 1..Len(xs) : xs[i] < v}) < k
        /\ Cardinality({i \in 1..Len(xs) : xs[i] <= v}) >= k

\* statistics.mean and statistics.median as fractions
Mean(xs) == [num |-> SumSeq(xs), den |-> Len(xs)]

Median(xs) ==
    LET n == Len(xs)
    IN  IF n % 2 = 1 THEN [num |-> Ranked(xs, (n + 1) \div 2), den |-> 1]
        ELSE [num |-> Ranked(xs, n \div 2) + Ranked(xs, n \div 2 + 1), den |-> 2]

\* '{x:,.2f}' of a fraction of hundredths
Money(x) == RoundDiv(x.num, x.den)

\* '{r - t:,.2f}'
Difference(r, t) == RoundDiv(r.num * t.den - t.num * r.den, r.den * t.den)

\* (the percentage cut off after one decimal instead of rounded)
Percent_CutOff(r, t) ==
    LET num == r.num * t.den - t.num * r.den
        den == t.num * r.den
        g   == Gcd(Abs(num), den)
    IN  ((num \div g) * 1000) \div (den \div g)

\* '{(r/t - 1)*100:+.1f}', in tenths of a percent
Percent(r, t) ==
    LET num == r.num * t.den - t.num * r.den
        den == t.num * r.den
        g   == Gcd(Abs(num), den)
    IN  RoundDiv((num \div g) * 1000, den \div g)

\* the lines printed for one track of one rank, None for 'No faculty'
TrackLines(entries) ==
    IF entries = <<>> THEN None
    ELSE LET xs == SalariesOf(entries)
         IN  [count |-> Len(xs), mean |-> Money(Mean(xs)),
              median |-> Money(Median(xs)),
              min |-> Ranked(xs, 1), max |-> Ranked(xs, Len(xs))]

\* the PARITY COMPARISON lines of one rank, None when a track is empty
ParityLines(teaching, tenure) ==
    IF teaching = <<>> \/ tenure = <<>> THEN None
    ELSE LET t_mean   == Mean(SalariesOf(teaching))
             r_mean   == Mean(SalariesOf(tenure))
             t_median == Median(SalariesOf(teaching))
             r_median == Median(SalariesOf(tenure))
         IN  [mean_difference |-> Difference(r_mean, t_mean),
              mean_percent |-> Percent(r_mean, t_mean),
              median_difference |-> Difference(r_median, t_median),
              median_percent |-> Percent(r_median, t_median)]

ReportRanks == <<"full", "associate", "assistant">>

\* the loop of lines 108-150
report(a) ==
    [k \in 1..Len(ReportRanks) |->
        LET teaching == GetList(a.teaching_by_rank, ReportRanks[k])
            tenure   == GetList(a.tenure_by_rank, ReportRanks[k])
        IN  [rank |-> ReportRanks[k],
             teaching |-> TrackLines(teaching),
             tenure |-> TrackLines(tenure),
             parity |-> ParityLines(teaching, tenure)]]

AnalysisFrame ==
    UNCHANGED <<parser, doc, expect, nData, fed, simple, matched, member,
                derived, extract>>

\* load_faculty: the file an entry point wrote, or no file
Load ==
    /\ extract.pc = "done"
    /\ analysis.pc = "idle"
    /\ analysis' = IF extract.written
                   THEN [analysis EXCEPT !.pc = "loop", !.data = extract.output,
                                         !.i = 1]
                   ELSE [analysis EXCEPT !.pc = "done",
                                         !.raised = "FileNotFoundError"]
    /\ AnalysisFrame

Bucket ==
    /\ analysis.pc = "loop"
    /\ analysis.i <= Len(analysis.data)
    /\ analysis' = bucket_step(analysis, analysis.data[analysis.i])
    /\ AnalysisFrame

Report ==
    /\ analysis.pc = "loop"
    /\ analysis.i > Len(analysis.data)
    /\ analysis' = [analysis EXCEPT !.pc = "done", !.report = report(analysis)]
    /\ AnalysisFrame

(***************************************************************************)
(* The pipeline: an entry point reads a document and writes the file,      *)
(* analyze_parity reads the file.  FTEs are 1.00, 0.40 and 0.00 and        *)
(* salaries whole thousands, so that the sums and means the code computes  *)
(* in binary floating point are the exact ones computed here.              *)
(***************************************************************************)
Row(name, title, empl_class, fte, salary) ==
    <<name, title, "", empl_class, fte, fte, salary, salary>>

ParityRows ==
    { Row("Able, A", "TCH PROF", "AA", "1.00", "$100,000.00"),
      Row("Baker, B", "TCH PROF", "AA", "1.00", "$120,000.00"),
      Row("Cole, C", "PROF", "AA", "1.00", "$150,000.00"),
      Row("", "ADMIN STIPEND", "BA", "0.00", "$5,000.00"),
      Row("Lee, A", "LECTURER", "AL", "0.40", "$40,000.00"),
      Row("", "RES ASST PROF", "AA", "0.40", "$45,000.00"),
      Row("Dunn, D", "INSTRUCTOR", "AA", "1.00", "$80,000.00"),
      Row("", "DEPT HEAD", "BA", "0.00", "$200,000.00") }

\* the h3 elements of the document: the school's section under its own
\* id, under another id than the rows', or not in the document
HeadingSets ==
    { <<<<"c42-d6", "434 - Siebel School Comp & Data Sci">>>>,
      <<<<"c42-d6", "433 - Physics">>,
        <<"c42-d7", "434 - Siebel School Comp & Data Sci">>>>,
      <<<<"c42-d6", "433 - Physics">>>> }

\* the text of the .docx, up to the entries
FullTexts == {"434 - Siebel School Comp & Data Sci ", "433 - Physics "}

InitParity ==
    /\ \/ /\ \E h \in HeadingSets :
                extract = [NoExtract EXCEPT !.entry = "html", !.pc = "names",
                                            !.input = h]
          /\ parser = handle_starttag(NewParser, "table", <<>>)
       \/ /\ \E t \in FullTexts :
                extract = [NoExtract EXCEPT !.entry = "docx", !.pc = "section",
                                            !.input = t]
          /\ parser = NewParser
    /\ simple = NoSimple
    /\ doc = NewDoc
    /\ expect = NoCall
    /\ nData = 0
    /\ fed = <<>>
    /\ matched = <<>>
    /\ member = NoMember
    /\ derived = NoDerived
    /\ analysis = NoAnalysis

NextParity ==
    \/ HtmlNames
    \/ \E cells \in ParityRows : HtmlRow("c42-d6", cells)
    \/ HtmlWrite
    \/ DocxSection
    \/ \E m \in MatchSet : DocxMatch(m)
    \/ DocxReturn
    \/ DocxWrite
    \/ Load
    \/ Bucket
    \/ Report

SpecParity == InitParity /\ [][NextParity]_vars

(***************************************************************************)
(* Properties.                                                             *)
(***************************************************************************)
IsPrefix(a, b) == Len(a) <= Len(b) /\ SubSeq(b, 1, Len(a)) = a

Last(seq) == seq[Len(seq)]

\* the members of a department, none when it has no entry
FacultyOf(departments, d) ==
    IF d \in DOMAIN departments THEN departments[d].faculty ELSE <<>>

\* every department entry but that of d is the same in both collections
SameElsewhere(before, after, d) ==
    /\ DOMAIN after \ {d} = DOMAIN before \ {d}
    /\ \A e \in DOMAIN before \ {d} : after[e] = before[e]

\* the members of 'before' are those of 'after', in place, with their
\* positions in place
FacultyKept(before, after) ==
    /\ Len(before) <= Len(after)
    /\ \A i \in 1..Len(before) :
           /\ after[i].name = before[i].name
           /\ IsPrefix(before[i].positions, after[i].positions)

DepartmentsKept(before, after) ==
    \A d \in DOMAIN before :
        d \in DOMAIN after /\ FacultyKept(before[d].faculty, after[d].faculty)

MemberCount(departments) ==
    LET RECURSIVE Over(_)
        Over(ds) == IF ds = {} THEN 0
                    ELSE LET d == CHOOSE x \in ds : TRUE
                         IN  Len(departments[d].faculty) + Over(ds \ {d})
    IN  Over(DOMAIN departments)

\* the step processes a row (8 cells or more, not a subtotal row)
RowProcessed == Len(fed') = Len(fed) + 1

(* C1, as claimed: a processed row whose name cell is blank or identical   *)
(* to the prior processed row's name is appended as one more Position to   *)
(* the person who received that prior row, and any other row starts a new  *)
(* FacultyMember: also across department sections, and when the blank-name *)
(* row is the first row of its department.                                 *)
C1_AsClaimed ==
    [][RowProcessed =>
        LET name == Last(fed').row[1]
            pd   == Last(fed).dept
            old  == parser.departments[pd].faculty
            new  == parser'.departments[pd].faculty
        IN  IF fed # <<>> /\ (name = "" \/ name = Last(fed).row[1])
            THEN /\ MemberCount(parser'.departments) = MemberCount(parser.departments)
                 /\ Len(Last(new).positions) = Len(Last(old).positions) + 1
            ELSE MemberCount(parser'.departments)
                     = MemberCount(parser.departments) + 1]_vars

(* C1, amended: a processed row is appended as one more Position to the    *)
(* last FacultyMember of the current department section when that section  *)
(* already has a member and the row's name cell is blank or identical to   *)
(* that member's name; otherwise it starts a new FacultyMember at the end  *)
(* of the current section (so a blank-name row that is the first row of    *)
(* its department starts a member with an empty name).  Other sections are *)
(* left as they are.                                                       *)
C1_Continuation ==
    [][RowProcessed =>
        LET row  == Last(fed').row
            d    == Last(fed').dept
            old  == FacultyOf(parser.departments, d)
            new  == FacultyOf(parser'.departments, d)
            n    == Len(old)
        IN  /\ SameElsewhere(parser.departments, parser'.departments, d)
            /\ IF n > 0 /\ (row[1] = "" \/ row[1] = old[n].name)
               THEN /\ Len(new) = n
                    /\ SubSeq(new, 1, n - 1) = SubSeq(old, 1, n - 1)
                    /\ new[n].name = old[n].name
                    /\ Len(new[n].positions) = Len(old[n].positions) + 1
                    /\ IsPrefix(old[n].positions, new[n].positions)
                    /\ Last(new[n].positions).title = row[2]
               ELSE /\ Len(new) = n + 1
                    /\ SubSeq(new, 1, n) = old
                    /\ new[n + 1].name = row[1]
                    /\ Len(new[n + 1].positions) = 1
                    /\ new[n + 1].positions[1].title = row[2]]_vars

\* ["Smith, Jane", "PROF", ...] then ["", "ADMIN STIPEND", ...]: one member
\* with two positions
C1_Witness ==
    /\ "c42-d6" \in DOMAIN parser.departments
    /\ Len(parser.departments["c42-d6"].faculty) = 1
    /\ parser.departments["c42-d6"].faculty[1].name = "Smith, Jane"
    /\ Len(parser.departments["c42-d6"].faculty[1].positions) = 2
    /\ parser.departments["c42-d6"].faculty[1].positions[1].title = "PROF"
    /\ parser.departments["c42-d6"].faculty[1].positions[2].title = "ADMIN STIPEND"

(* C2: in both assemblers every FacultyMember of the output collection has *)
(* at least one Position, and no step removes, changes or moves a Position *)
(* that a member already has.                                              *)
C2_HasPosition ==
    /\ \A d \in DOMAIN parser.departments :
           \A i \in 1..Len(parser.departments[d].faculty) :
               parser.departments[d].faculty[i].positions # <<>>
    /\ \A i \in 1..Len(simple.faculty) : simple.faculty[i].positions # <<>>

C2_PositionsStay ==
    /\ []C2_HasPosition
    /\ [][/\ DepartmentsKept(parser.departments, parser'.departments)
          /\ FacultyKept(simple.faculty, simple'.faculty)]_vars

C2_Witness ==
    \E d \in DOMAIN parser.departments :
        /\ Len(parser.departments[d].faculty) = 2
        /\ Len(parser.departments[d].faculty[1].positions) = 2

(* C3: members and positions stand in the order their rows were            *)
(* encountered: read member by member, the positions of a department are   *)
(* the processed rows of that department in order, each member is named by *)
(* the row that started it, and in flattened-text mode the positions of    *)
(* the saved members followed by those of the person in progress are the   *)
(* matches in order.                                                       *)
RECURSIVE Flatten(_)
Flatten(faculty) ==
    IF faculty = <<>> THEN <<>>
    ELSE faculty[1].positions \o Flatten(SubSeq(faculty, 2, Len(faculty)))

RECURSIVE RowsOf(_, _)
RowsOf(log, d) ==
    IF log = <<>> THEN <<>>
    ELSE (IF log[1].dept = d THEN <<log[1].row>> ELSE <<>>)
             \o RowsOf(SubSeq(log, 2, Len(log)), d)

\* the index, among the rows of its department, of the row that started
\* member i
FirstRow(faculty, i) == Len(Flatten(SubSeq(faculty, 1, i - 1))) + 1

C3_EncounterOrder ==
    /\ \A d \in DeptIds :
           LET faculty == FacultyOf(parser.departments, d)
               flat    == Flatten(faculty)
               rows    == RowsOf(fed, d)
           IN  /\ Len(flat) = Len(rows)
               /\ \A k \in 1..Len(flat) :
                      /\ flat[k].title = rows[k][2]
                      /\ flat[k].empl_class = rows[k][4]
               /\ \A i \in 1..Len(faculty) :
                      faculty[i].name = rows[FirstRow(faculty, i)][1]
    /\ simple.pc \in {"loop", "done"} =>
           LET flat == Flatten(simple.faculty)
                           \o (IF simple.pc = "loop" THEN simple.current_positions
                               ELSE <<>>)
           IN  /\ Len(flat) = Len(matched)
               /\ \A k \in 1..Len(flat) : flat[k].title = matched[k].title
               /\ \A i \in 1..Len(simple.faculty) :
                      simple.faculty[i].name
                          = matched[FirstRow(simple.faculty, i)].name

C3_Witness ==
    /\ simple.pc = "done"
    /\ Len(simple.faculty) = 2
    /\ Len(simple.faculty[1].positions) = 2

(* C4: a table row whose title contains "Employee Total" leaves the         *)
(* departments collection as it was; no Position has such a title, and     *)
(* only processed rows have made Positions.                                *)
C4_NoSubtotal ==
    /\ \A d \in DOMAIN parser.departments :
           \A i \in 1..Len(parser.departments[d].faculty) :
               \A k \in 1..Len(parser.departments[d].faculty[i].positions) :
                   ~Contains(parser.departments[d].faculty[i].positions[k].title,
                             "Employee Total")
    /\ Assembled(parser.departments) = Len(fed)

C4_SubtotalDropped ==
    /\ []C4_NoSubtotal
    /\ [][(/\ parser'.call.made
           /\ Len(parser'.call.row) >= 2
           /\ Contains(parser'.call.row[2], "Employee Total"))
          => parser'.departments = parser.departments]_vars

C4_Witness ==
    /\ parser.call.made
    /\ Len(parser.call.row) >= 8
    /\ Contains(parser.call.row[2], "Employee Total")
    /\ Len(fed) >= 1

(* C5: a table row of fewer than 8 cells raises no error and leaves the    *)
(* departments collection as it was; a row of 8 cells or more (not a        *)
(* subtotal row) makes exactly one Position, from its cells 0..7.           *)
C5_ShortRowSkipped ==
    /\ [](parser.raised = NoError)
    /\ [][parser'.call.made =>
            LET row == parser'.call.row
                d   == parser'.call.dept
                now == FacultyOf(parser'.departments, d)
            IN  /\ Len(row) < 8 => parser'.departments = parser.departments
                /\ (Len(row) >= 8 /\ ~Contains(row[2], "Employee Total")) =>
                       /\ Assembled(parser'.departments)
                              = Assembled(parser.departments) + 1
                       /\ now # <<>>
                       /\ Last(Last(now).positions)
                              = Position(row[2], row[3], row[4],
                                         parse_fte(row[5]).val, parse_fte(row[6]).val,
                                         parse_salary(row[7]).val,
                                         parse_salary(row[8]).val)]_vars

C5_Witness ==
    /\ parser.call.made
    /\ Len(parser.call.row) = 7
    /\ \E k \in 1..Len(fed) : Len(fed[k].row) = 9

(* C6, as claimed: in a document whose elements nest properly, each row    *)
(* that lies directly in a table (not in its thead), has a cell and stands  *)
(* under a heading with a non-empty id is handed to _process_row by its tr *)
(* end tag, as the stripped text of its cells in column order and with     *)
(* that heading's id, and no other event hands over a row: nested tables   *)
(* included.                                                               *)
C6_AsClaimed == doc.balanced => parser.call = expect

(* C6 where no table is opened inside another: there the parser and the   *)
(* document agree on every event.  Every tr, td/th, thead and table has    *)
(* its end tag, a row has at least one cell, and the heading is the h3     *)
(* with an id seen last before the row's end tag, its id not empty.        *)
C6_RowsEmitted == (doc.balanced /\ ~doc.nested) => parser.call = expect

\* a row of two cells handed over after a thead and a table were closed and
\* a new table opened
C6_Witness ==
    /\ doc.balanced /\ ~doc.nested
    /\ expect.made /\ parser.call.made
    /\ Len(expect.row) >= 2
    /\ Assembled(parser.departments) >= 1

(* C7: no sequence of tag and text events makes a handler raise, and no     *)
(* event removes or changes a member or a Position assembled before it.    *)
C7_NeverFails ==
    /\ [](parser.raised = NoError)
    /\ [][DepartmentsKept(parser.departments, parser'.departments)]_vars

\* a member assembled from a row with non-numeric FTE and salary cells,
\* followed by events that do not nest
C7_Witness ==
    /\ ~doc.balanced
    /\ Assembled(parser.departments) >= 1
    /\ parser.in_cell /\ ~parser.in_table

(* C8: primary_position is the first Position of maximum present_salary     *)
(* among those with present_salary > 0, and the first Position when none   *)
(* is positive: in table mode for every member, in flattened-text mode for *)
(* every member that mode can build.                                       *)
ExpectedPrimary(positions) ==
    LET positive == {i \in 1..Len(positions) : positions[i].present_salary > 0}
        top      == {i \in positive : \A j \in positive :
                         positions[j].present_salary <= positions[i].present_salary}
    IN  IF positive = {} THEN 1
        ELSE CHOOSE i \in top : \A j \in top : i <= j

C8_PrimaryPosition ==
    derived.done =>
        /\ derived.html.primary = ExpectedPrimary(member.positions)
        /\ DocxShaped(member) =>
               derived.docx.primary = ExpectedPrimary(member.positions)

\* two positions of equal positive salary
C8_Witness ==
    /\ derived.done
    /\ Len(member.positions) = 2
    /\ member.positions[1].present_salary > 0
    /\ member.positions[1].present_salary = member.positions[2].present_salary
    /\ member.positions[1].title # member.positions[2].title
    /\ derived.html.primary = 1

\* the primary title by each data model
HtmlTitle == member.positions[derived.html.primary].title
DocxTitle == member.positions[derived.docx.primary].title

InstrOnly(title) ==
    /\ Contains(title, "INSTR")
    /\ \A kw \in {"TCH ", "TEACHING", "LECTURER", "RES ", "CLIN", "PROF"} :
           ~Contains(title, kw)

(* C10, as claimed: a flattened-text member whose primary title contains    *)
(* "INSTR" and no teaching, research, clinical or PROF keyword has          *)
(* faculty_type "other" and rank "instructor", and table mode gives the    *)
(* same title faculty_type "teaching".                                     *)
C10_AsClaimed ==
    (derived.done /\ DocxShaped(member) /\ InstrOnly(DocxTitle)) =>
        /\ derived.docx.faculty_type = "other"
        /\ derived.docx.rank = "instructor"
        /\ faculty_type(DocxTitle) = "teaching"

(* C10, amended: when "INSTR" is not followed by a space in that title,     *)
(* the flattened-text faculty_type is "other" and table mode gives          *)
(* "teaching"; the flattened-text rank is "instructor" unless the title    *)
(* contains "ASSISTANT" (rank "assistant") or "ASSOCIATE" (rank            *)
(* "associate").  "INSTR " (with the space) is a teaching keyword of the   *)
(* flattened-text pipeline too.                                            *)
C10_InstrDivergence ==
    (derived.done /\ DocxShaped(member) /\ InstrOnly(DocxTitle)) =>
        IF Contains(DocxTitle, "INSTR ")
        THEN derived.docx.faculty_type = "teaching"
        ELSE /\ derived.docx.faculty_type = "other"
             /\ derived.html.primary = derived.docx.primary
             /\ derived.html.faculty_type = "teaching"
             /\ derived.docx.rank =
                    (IF Contains(DocxTitle, "ASSISTANT") THEN "assistant"
                     ELSE IF Contains(DocxTitle, "ASSOCIATE") THEN "associate"
                     ELSE "instructor")

C10_Witness ==
    /\ derived.done
    /\ DocxTitle = "INSTRUCTOR"
    /\ derived.docx.faculty_type = "other"
    /\ derived.docx.rank = "instructor"
    /\ derived.html.faculty_type = "teaching"

\* the rank rule list, first match wins, with the long spellings of the
\* assistant and associate rules as parameters
RankRule(title, assistant, associate) ==
    LET found == [i \in 1..6 |->
            CASE i = 1 -> Contains(title, "ASST PROF") \/ Contains(title, assistant)
              [] i = 2 -> Contains(title, "ASSOC PROF") \/ Contains(title, associate)
              [] i = 3 -> Contains(title, "PROF")
              [] i = 4 -> Contains(title, "LECTURER") /\ Contains(title, "SR")
              [] i = 5 -> Contains(title, "LECTURER")
              [] i = 6 -> Contains(title, "INSTR")]
        names == <<"assistant", "associate", "full", "senior_lecturer",
                   "lecturer", "instructor">>
        hits  == {i \in 1..6 : found[i]}
    IN  IF hits = {} THEN "other"
        ELSE names[CHOOSE i \in hits : \A j \in hits : i <= j]

(* C11, as claimed: both pipelines' rank is the first matching rule of      *)
(* "ASST PROF" or "ASSISTANT" -> assistant; "ASSOC PROF" or "ASSOCIATE" ->  *)
(* associate; "PROF" -> full; "LECTURER" with "SR" -> senior_lecturer;      *)
(* "LECTURER" -> lecturer; "INSTR" -> instructor; otherwise other, on the   *)
(* uppercased primary title.                                               *)
C11_AsClaimed ==
    derived.done =>
        /\ derived.html.rank = RankRule(Upper(HtmlTitle), "ASSISTANT", "ASSOCIATE")
        /\ DocxShaped(member) =>
               derived.docx.rank = RankRule(Upper(DocxTitle), "ASSISTANT", "ASSOCIATE")

(* C11, amended: the flattened-text pipeline's rank is that rule list; the  *)
(* table pipeline's rank is the same list with "ASSISTANT PROF" in place   *)
(* of "ASSISTANT" and "ASSOCIATE PROF" in place of "ASSOCIATE".            *)
C11_RankRules ==
    derived.done =>
        /\ derived.html.rank =
               RankRule(Upper(HtmlTitle), "ASSISTANT PROF", "ASSOCIATE PROF")
        /\ DocxShaped(member) =>
               derived.docx.rank = RankRule(Upper(DocxTitle), "ASSISTANT", "ASSOCIATE")

\* a title the two pipelines rank differently
C11_Witness ==
    /\ derived.done
    /\ HtmlTitle = "ASSISTANT INSTRUCTOR"
    /\ derived.html.rank = "instructor"
    /\ derived.docx.rank = "assistant"

\* the aggregator is at a record: the step now taken is one iteration of
\* its loop, on that record
AtRecord == analysis.pc = "loop" /\ analysis.i <= Len(analysis.data)

Current == analysis.data[analysis.i]

\* the step put an entry in a bucket
Bucketed ==
    \/ analysis'.teaching_by_rank # analysis.teaching_by_rank
    \/ analysis'.tenure_by_rank # analysis.tenure_by_rank

\* the step printed 'Excluding split appointment: <name>' and went on
Reported(f) ==
    /\ analysis'.excluded = Append(analysis.excluded, f.name)
    /\ analysis'.raised = NoError
    /\ analysis'.pc = "loop"

\* the tracks, of teaching / research / tenure-track, that the faculty-class
\* positions of a record span
SpannedTracks(f) ==
    LET titles == FacultyTitles(f)
    IN  {k \in {"teaching", "research", "tenure_track"} :
            \E t \in titles :
                CASE k = "teaching" -> has_teaching(t)
                  [] k = "research" -> has_research(t)
                  [] k = "tenure_track" -> has_tenure_track(t)}

\* the record says full-time
FullTimeHere(f) == "is_full_time_here" \in DOMAIN f /\ f.is_full_time_here

AddedEntries ==
    {Last(analysis'.teaching_by_rank[r]) :
        r \in {q \in DOMAIN analysis'.teaching_by_rank :
                 analysis'.teaching_by_rank[q] # GetList(analysis.teaching_by_rank, q)}}
      \cup
    {Last(analysis'.tenure_by_rank[r]) :
        r \in {q \in DOMAIN analysis'.tenure_by_rank :
                 analysis'.tenure_by_rank[q] # GetList(analysis.tenure_by_rank, q)}}

(* C13: the salary entered in a bucket for a member is the present_salary   *)
(* of the member's primary position, the position its faculty_type and     *)
(* rank were derived from: not its total salary, not another position's.   *)
C13_PrimarySalary ==
    [][(AtRecord /\ Bucketed) =>
          LET f == Current
              primary == f.positions[primary_position(f.positions)]
          IN  /\ Cardinality(AddedEntries) = 1
              /\ \A e \in AddedEntries :
                     /\ e.name = f.name
                     /\ e.salary = primary.present_salary
                     /\ f.faculty_type = faculty_type(primary.title)
                     /\ f.rank = rank(primary.title)]_vars

\* a bucket holds a member whose total is more than its primary salary
C13_Witness ==
    /\ analysis.pc = "done"
    /\ \E r \in DOMAIN analysis.teaching_by_rank :
         \E i \in 1..Len(analysis.teaching_by_rank[r]) :
            LET e == analysis.teaching_by_rank[r][i]
            IN  e.salary = 10000000 /\ e.total_salary > e.salary

\* the input of the example: one section with these three rows, in any order
ExampleRows ==
    { Row("Able, A", "TCH PROF", "AA", "1.00", "$100,000.00"),
      Row("Baker, B", "TCH PROF", "AA", "1.00", "$120,000.00"),
      Row("Cole, C", "PROF", "AA", "1.00", "$150,000.00") }

ExampleRun ==
    /\ extract.entry = "html"
    /\ Len(fed) = 3
    /\ {fed[i].row : i \in 1..3} = ExampleRows
    /\ analysis.pc = "done"

\* x is num / den rounded to the nearest integer (den > 0)
IsRounded(x, num, den) == 2 * Abs(x * den - num) <= den

\* the sum of a bucket's salaries, in thousands (the inputs are whole thousands)
SumK(entries) == SumSeq(SalariesOf(entries)) \div 100000

(* C14: for the input of one department with two full-time teaching-track  *)
(* full professors at 100,000 and 120,000 and one full-time tenure-track   *)
(* full professor at 150,000, the rank "full" section reports teaching     *)
(* mean 110,000.00, tenure mean 150,000.00, mean difference 40,000.00 and  *)
(* +36.4%; and in every report the mean difference is tenure mean minus    *)
(* teaching mean and the percentage (tenure mean / teaching mean - 1) *    *)
(* 100, each rounded as printed.                                           *)
C14_Report ==
    (analysis.pc = "done" /\ analysis.raised = NoError) =>
        /\ ExampleRun =>
              /\ analysis.report[1].rank = "full"
              /\ analysis.report[1].teaching.mean = 11000000
              /\ analysis.report[1].tenure.mean = 15000000
              /\ analysis.report[1].parity.mean_difference = 4000000
              /\ analysis.report[1].parity.mean_percent = 364
        /\ \A k \in 1..Len(analysis.report) :
              LET teaching == GetList(analysis.teaching_by_rank, analysis.report[k].rank)
                  tenure   == GetList(analysis.tenure_by_rank, analysis.report[k].rank)
                  tn == Len(teaching)
                  rn == Len(tenure)
                  lines == analysis.report[k].parity
              IN  IF tn = 0 \/ rn = 0 THEN lines = None
                  ELSE /\ IsRounded(lines.mean_difference,
                                    SumSeq(SalariesOf(tenure)) * tn
                                       - SumSeq(SalariesOf(teaching)) * rn,
                                    rn * tn)
                       /\ IsRounded(lines.mean_percent,
                                    1000 * (SumK(tenure) * tn - SumK(teaching) * rn),
                                    SumK(teaching) * rn)

\* the example has run to its report
C14_Witness ==
    /\ ExampleRun
    /\ analysis.raised = NoError
    /\ analysis.report[1].teaching.count = 2
    /\ analysis.report[1].tenure.count = 1
    /\ analysis.report[1].parity.mean_percent = 364

\* "$1,234.56": an optional "$", then digits and thousands separators, a
\* "." and decimal digits
CurrencyForm(s) ==
    LET body == IF s # "" /\ CharAt(s, 1) = "$" THEN SubSeq(s, 2, Len(s)) ELSE s
        d    == DotAt(body)
    IN  /\ d > 1
        /\ d < Len(body)
        /\ \A i \in 1..Len(body) :
              i # d => CharAt(body, i) \in Digits \cup {","}
        /\ CharAt(body, 1) \in Digits

\* the amount a currency string denotes, in hundredths
CurrencyValue(s) ==
    LET body == RemoveChar(RemoveChar(s, "$"), ",")
        d    == DotAt(body)
    IN  NatVal(SubSeq(body, 1, d - 1)) * 100
           + Hundredths(SubSeq(body, d + 1, Len(body)))

NoNumericBody(s) == \A i \in 1..Len(s) : CharAt(s, i) \notin Digits

\* parse_salary on the two salary cells of the row just processed
SalaryCellsParsed ==
    [][(parser'.call.made /\ Processed(parser'.call.row)) =>
          \A k \in {7, 8} :
              LET cell == parser'.call.row[k]
              IN  /\ parse_salary(cell).raised = NoError
                  /\ CurrencyForm(cell) =>
                        parse_salary(cell).val = CurrencyValue(cell)
                  /\ NoNumericBody(cell) => parse_salary(cell).val = 0]_vars

\* the salaries of the Position just stored
SalariesStoredNonNegative ==
    [][(parser'.call.made /\ Processed(parser'.call.row)) =>
          LET stored == Last(Last(FacultyOf(parser'.departments,
                                            parser'.call.dept)).positions)
          IN  /\ stored.present_salary >= 0
              /\ stored.proposed_salary >= 0]_vars

(* C15, as claimed: parse_salary never raises; a currency string of the    *)
(* form "$1,234.56" yields exactly its numeric value; a string without a   *)
(* numeric body yields 0.0; and every salary stored in a Position is a     *)
(* non-negative amount.                                                    *)
C15_AsClaimed == SalaryCellsParsed /\ SalariesStoredNonNegative

\* the input document has no heading of the requested department
SectionAbsent ==
    \/ /\ extract.entry = "html"
       /\ \A i \in 1..Len(extract.input) :
             /\ ~Contains(extract.input[i][2], "Siebel School")
             /\ ~Contains(extract.input[i][2], "434 -")
    \/ /\ extract.entry = "docx"
       /\ ~Contains(extract.input, SectionPattern)

(* C16, as claimed: when the requested department section is absent from   *)
(* the input document, the extraction run of either entry point ends with  *)
(* a raised error, writes no intermediate artifact and never ends as a     *)
(* successful run.                                                         *)
C16_AsClaimed ==
    (SectionAbsent /\ extract.pc = "done") =>
        /\ extract.raised # NoError
        /\ extract.exit = "error"
        /\ ~extract.written

\* what the code does keep in both entry points: no artifact is written
AbsentSectionWritesNothing ==
    (SectionAbsent /\ extract.pc = "done") => ~extract.written

\* the fields of a record of the artifact, and of each of its positions
RecordFields ==
    {"name", "faculty_type", "rank", "is_full_time_here", "is_joint_appointment",
     "total_present_salary", "total_proposed_salary", "total_present_fte",
     "positions"}

PositionFields ==
    {"title", "tenure_code", "empl_class", "present_fte", "proposed_fte",
     "present_salary", "proposed_salary"}

(* C17, as claimed: every record of the artifact written by either entry   *)
(* point carries all the record fields and every position all the position *)
(* fields, and the aggregator consumes the artifact of either front-end    *)
(* without a missing-field error.                                          *)
C17_AsClaimed ==
    /\ extract.written =>
          \A i \in 1..Len(extract.output) :
              /\ RecordFields \subseteq DOMAIN extract.output[i]
              /\ \A j \in 1..Len(extract.output[i].positions) :
                    PositionFields \subseteq DOMAIN extract.output[i].positions[j]
    /\ analysis.raised # "KeyError"

\* the artifact of the HTML entry point has them all
HtmlArtifactComplete ==
    (extract.entry = "html" /\ extract.written) =>
        /\ \A i \in 1..Len(extract.output) :
              /\ RecordFields \subseteq DOMAIN extract.output[i]
              /\ \A j \in 1..Len(extract.output[i].positions) :
                    PositionFields \subseteq DOMAIN extract.output[i].positions[j]
        /\ analysis.raised # "KeyError"

\* the aggregator fails on every non-empty artifact of the DOCX entry point
DocxArtifactFails ==
    (extract.entry = "docx" /\ analysis.pc = "done" /\ extract.written
        /\ extract.output # <<>>) => analysis.raised = "KeyError"

(* C18, as claimed: for every member the aggregator places in the teaching *)
(* bucket, is_clean_appointment detects the teaching track and no other    *)
(* among its faculty-class titles, and for every member placed in the      *)
(* tenure bucket it detects the tenure-track track and no teaching or      *)
(* research track.                                                         *)
C18_AsClaimed ==
    [][(AtRecord /\ Bucketed) =>
          LET f == Current
          IN  /\ analysis'.teaching_by_rank # analysis.teaching_by_rank =>
                    SpannedTracks(f) = {"teaching"}
              /\ analysis'.tenure_by_rank # analysis.tenure_by_rank =>
                    SpannedTracks(f) = {"tenure_track"}]_vars

====
